---- MODULE Spec2Model ----
(***************************************************************************)
(* A model of SEDkit's spectrum stitching (SEDkit/spectrum.py) and of the  *)
(* SED object's spectra calibration (SEDkit/sed.py).                       *)
(*                                                                         *)
(* Numbers.  The program computes in floating point; the model computes    *)
(* the same expressions exactly, over rationals <<n, d>> with d > 0 and    *)
(* gcd(n, d) = 1.  A wavelength is an integer.  An uncertainty is stored   *)
(* as its square (field unc_sq), so that sqrt(u1^2 + u2^2) is exact: every *)
(* use the program makes of an uncertainty is a comparison of positive     *)
(* numbers, a scaling or a quadrature sum, all of which the square decides;*)
(* where the program interpolates an uncertainty between two samples, the *)
(* model takes the exact root of the squares (RSqrt).                      *)
(***************************************************************************)
EXTENDS Integers, Sequences, FiniteSets, TLC

VARIABLES a, b, result, overlap, pc, sed, call

vars == <<a, b, result, overlap, pc, sed, call>>

(***************************************************************************)
(* Bounds of the model.                                                    *)
(***************************************************************************)
MaxLen == 3
MaxWave == 4
MaxSpectra == 3

(***************************************************************************)
(* Exact arithmetic.                                                       *)
(***************************************************************************)
RECURSIVE GCD(_, _)
GCD(x, y) == IF y = 0 THEN x ELSE GCD(y, x % y)

Abs(x) == IF x < 0 THEN 0 - x ELSE x

\* n/d over the common factor g, the denominator made positive
Reduced(n, d, g) ==
    IF d < 0 THEN <<(0 - n) \div g, (0 - d) \div g>> ELSE <<n \div g, d \div g>>

Rat(n, d) == Reduced(n, d, GCD(Abs(n), Abs(d)))

RInt(n) == <<n, 1>>

\* The operations cancel common factors before they multiply, which keeps
\* the products small; the values are those of the plain formulas.
AddOver(x, y, g) ==
    Rat(x[1] * (y[2] \div g) + y[1] * (x[2] \div g), (x[2] \div g) * y[2])

RAdd(x, y) == AddOver(x, y, GCD(x[2], y[2]))

RSub(x, y) == RAdd(x, <<0 - y[1], y[2]>>)

MulOver(x, y, g1, g2) ==
    Rat((x[1] \div g1) * (y[1] \div g2), (x[2] \div g2) * (y[2] \div g1))

RMul(x, y) == MulOver(x, y, GCD(Abs(x[1]), y[2]), GCD(Abs(y[1]), x[2]))

RSquare(x) == RMul(x, x)

RDiv(x, y) ==
    IF y[1] = 0 THEN Rat(x[1] * y[2], 0)
    ELSE RMul(x, IF y[1] < 0 THEN <<0 - y[2], 0 - y[1]>> ELSE <<y[2], y[1]>>)

\* The sign of x - y: that of the cross difference over the common factors
\* g of the denominators and k of the numerators
SignOver(x, y, g, k) ==
    (x[1] \div k) * (y[2] \div g) - (y[1] \div k) * (x[2] \div g)

RSign(x, y) ==
    SignOver(x, y, GCD(x[2], y[2]),
             IF x[1] = 0 /\ y[1] = 0 THEN 1 ELSE GCD(Abs(x[1]), Abs(y[1])))

RLe(x, y) == RSign(x, y) <= 0

(***************************************************************************)
(* Units.  A wavelength unit is "um" or "AA" (1 um = 10000 AA); a flux     *)
(* density unit is "erg/s/cm2/AA" or "W/m2/um" (1 erg/s/cm2/AA =           *)
(* 10 W/m2/um).  WaveFactor and FluxFactor give the number of the unit's   *)
(* numeric value per "um" and per "erg/s/cm2/AA".                          *)
(***************************************************************************)
WaveUnits == {"um", "AA"}

FluxUnits == {"erg/s/cm2/AA", "W/m2/um"}

WaveFactor(unit) == IF unit = "AA" THEN 10000 ELSE 1

FluxFactor(unit) == IF unit = "W/m2/um" THEN 10 ELSE 1

\* quantity.to(unit) on one wavelength: exact on the wavelengths of the model,
\* which are whole numbers of um.
WaveTo(w, from, to) == (w * WaveFactor(to)) \div WaveFactor(from)

\* self.flux_units.to(flux_units): the factor from one flux unit to another
FluxTo(from, to) == Rat(FluxFactor(to), FluxFactor(from))

(***************************************************************************)
(* Sequences.                                                              *)
(***************************************************************************)
Last(s) == s[Len(s)]

\* np.any(array): some element of the 3 x n array is not zero
np_any(data) ==
    \E i \in 1..Len(data) :
        data[i].wave # 0 \/ data[i].flux[1] # 0 \/ data[i].unc_sq[1] # 0

\* any(idx) of Python on an index array: some index is not zero.  idx holds
\* the indices TLA+ counts from 1, Python from 0.
py_any(idx) == \E i \in idx : i - 1 # 0

(***************************************************************************)
(* Spectrum objects.  A spectrum is a record                               *)
(*   [wave_units, flux_units, data, components]                            *)
(* where data is the sequence of the columns [wave, flux, unc_sq] of       *)
(* Spectrum.data in the spectrum's current units, and components is <<>>   *)
(* (None) or the pair stored by __add__.                                   *)
(***************************************************************************)
DefaultSnrTrim == 5

\* snr_trim=None: isinstance(snr_trim, (float, int)) is false
NoSnrTrim == 0 - 1

\* No scrubbing: the arrays as they are
no_scrub(data) == data

\* u.scrub: samples with a non-positive value are dropped
scrub(data) == SelectSeq(data, LAMBDA c : c.flux[1] > 0)

\* np.where(flux/unc >= snr_trim), for positive flux and non-negative unc
snr_idx(data, snr_trim) ==
    {i \in 1..Len(data) :
        RLe(RMul(RInt(snr_trim * snr_trim), data[i].unc_sq),
            RMul(data[i].flux, data[i].flux))}

SetMin(S) == CHOOSE x \in S : \A y \in S : x <= y

\* "Trim spectrum edges by SNR value"
snr_trim_edges(data, snr_trim) ==
    IF snr_trim = NoSnrTrim
    THEN data
    ELSE LET trimmed(idx) == IF py_any(idx)
                             THEN SubSeq(data, SetMin(idx),
                                         CHOOSE x \in idx : \A y \in idx : y <= x)
                             ELSE data
         IN  trimmed(snr_idx(data, snr_trim))

\* idx, = np.where(flux[flux>0]); arrays[idx]: the indices of the non-zero
\* elements of the compacted array of positive fluxes, 0..k-1
positive_idx(data) ==
    LET k == Cardinality({i \in 1..Len(data) : data[i].flux[1] > 0})
    IN  SubSeq(data, 1, k)

\* The wave_units setter: self.convert(str(wave_units))
set_wave_units(spec, wave_units) ==
    [spec EXCEPT
        !.data = [i \in 1..Len(spec.data) |->
                    [spec.data[i] EXCEPT
                        !.wave = WaveTo(@, spec.wave_units, wave_units)]],
        !.wave_units = wave_units]

\* The flux_units setter: flux and unc times self.flux_units.to(flux_units)
set_flux_units(spec, flux_units) ==
    LET k == FluxTo(spec.flux_units, flux_units)
    IN  [spec EXCEPT
            !.data = [i \in 1..Len(spec.data) |->
                        [spec.data[i] EXCEPT
                            !.flux = RMul(@, k),
                            !.unc_sq = RMul(@, RMul(k, k))]],
            !.flux_units = flux_units]

\* "Trim manually", one (mn, mx) window given in um, the wavelengths being
\* in Angstroms: idx, = np.where((wave<mn)|(wave>mx)); if any(idx): ...[idx]
trim_window(data, window) ==
    LET outside(c) == \/ c.wave < WaveTo(window[1], "um", "AA")
                      \/ c.wave > WaveTo(window[2], "um", "AA")
    IN  IF py_any({i \in 1..Len(data) : outside(data[i])})
        THEN SelectSeq(data, outside)
        ELSE data

\* for mn,mx in trim
RECURSIVE trim_manually(_, _)
trim_manually(data, trim) ==
    IF Len(trim) = 0 THEN data
    ELSE trim_manually(trim_window(data, trim[1]), Tail(trim))

\* Spectrum.__init__(wave, flux, unc, snr_trim=snr_trim, trim=trim) with wave
\* in wave_units and flux, unc in flux_units, for arrays of one length
Spectrum_init(wave_units, flux_units, data, snr_trim, trim) ==
    LET inAA == [i \in 1..Len(data) |->
                    [data[i] EXCEPT !.wave = WaveTo(@, wave_units, "AA")]]
        kept == positive_idx(trim_manually(snr_trim_edges(scrub(inAA), snr_trim),
                                           trim))
        stored == [wave_units |-> "AA", flux_units |-> flux_units,
                   data |-> kept, components |-> <<>>]
    IN  set_wave_units(stored, wave_units)

\* Spectrum.__init__ with the default trim=[]
Spectrum(wave_units, flux_units, data, snr_trim) ==
    Spectrum_init(wave_units, flux_units, data, snr_trim, <<>>)

\* Spectrum(*self.spectrum): a new object from the arrays with their units
copy_spectrum(spec) ==
    Spectrum(spec.wave_units, spec.flux_units, spec.data, DefaultSnrTrim)

(***************************************************************************)
(* Spectrum.__add__                                                        *)
(***************************************************************************)
Waves(data) == [i \in 1..Len(data) |-> data[i].wave]

\* "Determine if overlapping"
overlapping(s1, s2) ==
    ~ (   (Last(s1).wave > s1[1].wave /\ s1[1].wave > Last(s2).wave)
       \/ (Last(s2).wave > s2[1].wave /\ s2[1].wave > Last(s1).wave))

RECURSIVE InsertSorted(_, _)
InsertSorted(c, sorted) ==
    IF sorted = <<>> THEN <<c>>
    ELSE IF c.wave < sorted[1].wave THEN <<c>> \o sorted
    ELSE <<sorted[1]>> \o InsertSorted(c, Tail(sorted))

RECURSIVE SortByWave(_)
\* spec[np.argsort(spec[:, 0])]
SortByWave(data) ==
    IF data = <<>> THEN <<>>
    ELSE InsertSorted(data[Len(data)], SortByWave(SubSeq(data, 1, Len(data) - 1)))

\* "Get the left segment"
left_segment(s1, s2) ==
    LET left == SelectSeq(s1, LAMBDA c : c.wave <= s2[1].wave)
    IN  IF ~ np_any(left)
        THEN SelectSeq(s2, LAMBDA c : c.wave <= s1[1].wave)
        ELSE left

\* "Get the right segment"
right_segment(s1, s2) ==
    LET right == SelectSeq(s1, LAMBDA c : c.wave >= Last(s2).wave)
    IN  IF ~ np_any(right)
        THEN SelectSeq(s2, LAMBDA c : c.wave >= Last(s1).wave)
        ELSE right

\* "Get the overlapping segments": the columns strictly between the segments
overlap_segment(s, left, right) ==
    SelectSeq(s, LAMBDA c : c.wave < right[1].wave /\ c.wave > Last(left).wave)

\* r1 < r2 for r = shape[1]/(max - min); a span of 0 gives r = inf
lower_resolution(s1, s2) ==
    Len(s1) * (Last(s2).wave - s2[1].wave) < Len(s2) * (Last(s1).wave - s1[1].wave)

\* The segment of xp that np.interp uses for x, xp[1] <= x <= xp[n]
interp_segment(x, s) ==
    LET above == {i \in 2..Len(s) : x < s[i].wave}
    IN  IF above = {} THEN Len(s) ELSE SetMin(above) - 1

\* np.interp(x, s[0], s[1]): the flux of s, linearly interpolated at x
np_interp_flux(x, s) ==
    IF x < s[1].wave THEN s[1].flux
    ELSE IF x > Last(s).wave THEN Last(s).flux
    ELSE LET j == interp_segment(x, s)
         IN  IF j = Len(s) \/ s[j].wave = x
             THEN s[j].flux
             ELSE RAdd(s[j].flux,
                       RMul(RSub(s[j + 1].flux, s[j].flux),
                            Rat(x - s[j].wave, s[j + 1].wave - s[j].wave)))

\* x < sqrt(q) and sqrt(q) < x for a whole x >= 1 and a rational q >= 0; the
\* first conjunct and disjunct decide the cases where x * x need not be formed
LtRoot(x, q) == x <= q[1] /\ x * x * q[2] < q[1]

RootLt(q, x) == x > q[1] \/ q[1] < x * x * q[2]

\* np.interp(x, s[2], s[2]), squared: the uncertainties are both the x
\* coordinates and the values, so the result is x clipped to the first and
\* the last uncertainty.
np_interp_unc(x, s) ==
    IF LtRoot(x, s[1].unc_sq) THEN s[1].unc_sq
    ELSE IF RootLt(Last(s).unc_sq, x) THEN Last(s).unc_sq
    ELSE RInt(x * x)

\* "Interpolate s2 to s1", "Get the average"
merged_overlap(o1, s2) ==
    [i \in 1..Len(o1) |->
        [wave |-> o1[i].wave,
         flux |-> RDiv(RAdd(o1[i].flux, np_interp_flux(o1[i].wave, s2)), RInt(2)),
         unc_sq |-> RAdd(o1[i].unc_sq, np_interp_unc(o1[i].wave, s2))]]

\* The array spec that __add__ hands to the new Spectrum
stitched(s1, s2) ==
    IF ~ overlapping(s1, s2)
    THEN SortByWave(s1 \o s2)
    ELSE LET left == left_segment(s1, s2)
             right == right_segment(s1, s2)
             o1 == overlap_segment(s1, left, right)
             o2 == overlap_segment(s2, left, right)
             grid == IF lower_resolution(s1, s2) THEN o2 ELSE o1
         IN  left \o merged_overlap(grid, s2) \o right

\* spec2 after "Make spec2 the same units"
same_units(self, spec2) ==
    set_flux_units(set_wave_units(spec2, self.wave_units), self.flux_units)

\* self + spec2, for spec2 a Spectrum
Spectrum_add(self, spec2) ==
    LET s2 == same_units(self, spec2)
        new_spec == Spectrum(self.wave_units, self.flux_units,
                             stitched(self.data, s2.data), DefaultSnrTrim)
    IN  [new_spec EXCEPT !.components = <<copy_spectrum(self), s2>>]

(***************************************************************************)
(* The inputs of the model: arrays of at most MaxLen samples at ascending  *)
(* whole wavelengths 1..MaxWave (in um), each sample with a (flux, unc)    *)
(* pair of SampleVals, given in either wavelength unit and either flux     *)
(* unit, and built by Spectrum.__init__ with the default snr_trim or none. *)
(***************************************************************************)
SampleVals == {<<10, 1>>, <<4, 2>>}

RawColumn(w, v) == [wave |-> w, flux |-> RInt(v[1]), unc_sq |-> RInt(v[2] * v[2])]

RawArrays ==
    {s \in UNION {[1..n -> {RawColumn(w, v) : w \in 1..MaxWave, v \in SampleVals}] :
                    n \in 1..MaxLen} :
        \A i \in 1..(Len(s) - 1) : s[i].wave < s[i + 1].wave}

SnrTrims == {DefaultSnrTrim, NoSnrTrim}

\* A Spectrum object as a caller builds it: the arrays times their units
NewSpectrum(wave_units, flux_units, raw, snr_trim) ==
    Spectrum(wave_units, flux_units,
             [i \in 1..Len(raw) |->
                 [raw[i] EXCEPT !.wave = WaveTo(@, "um", wave_units)]],
             snr_trim)

NoSpectrum == [wave_units |-> "", flux_units |-> "", data |-> <<>>, components |-> <<>>]

\* No method call yet: call holds the name and the arguments of the last call
NoCall == [name |-> ""]

\* SED.__init__: default units, no distance, parallax or radius, no spectra,
\* a photometry table without rows.  attrs lists the attributes that exist
\* besides those of __init__ (stitched_spectra, app_spec_SED, fbol, ... are
\* created by the first assignment; until then the field holds a
\* placeholder).  groups is the local variable of the
\* last _calibrate_spectra, trace the calibrations the last call went into,
\* raised the exception the last call ended with ("" for a normal return).
NoSED ==
    [wave_units |-> "um", flux_units |-> "erg/s/cm2/AA",
     distance |-> "None", parallax |-> "None", radius |-> "None",
     photometry |-> <<>>, spectra |-> <<>>, attrs |-> {}, groups |-> <<>>,
     stitched_spectra |-> <<>>, app_spec_SED |-> NoSpectrum, abs_spec_SED |-> <<>>,
     app_phot_SED |-> NoSpectrum, abs_phot_SED |-> <<>>,
     wein |-> NoSpectrum, rj |-> <<>>, app_specphot_SED |-> NoSpectrum,
     app_SED |-> NoSpectrum, fbol |-> <<>>, mbol |-> <<>>, Mbol |-> <<>>,
     Lbol |-> <<>>,
     trace |-> <<>>, raised |-> ""]

(***************************************************************************)
(* SpecAdd: two Spectrum objects a and b, and one evaluation of a + b or   *)
(* of a + None.  result is the object returned, overlap the local variable *)
(* of __add__ after "Determine if overlapping".                            *)
(***************************************************************************)
InitAdd ==
    /\ \E wu \in WaveUnits, raw \in RawArrays, st \in SnrTrims :
          a = NewSpectrum(wu, "erg/s/cm2/AA", raw, st)
    /\ \E wu \in WaveUnits, fu \in FluxUnits, raw \in RawArrays, st \in SnrTrims :
          b = NewSpectrum(wu, fu, raw, st)
    /\ result = NoSpectrum
    /\ overlap = FALSE
    /\ pc = "start"
    /\ sed = NoSED
    /\ call = NoCall

\* result = a + b
Add ==
    /\ pc = "start"
    /\ b' = same_units(a, b)
    /\ overlap' = overlapping(a.data, b'.data)
    /\ result' = Spectrum_add(a, b)
    /\ pc' = "added"
    /\ UNCHANGED <<a, sed, call>>

\* result = a + None
AddNone ==
    /\ pc = "start"
    /\ result' = copy_spectrum(a)
    /\ pc' = "copied"
    /\ UNCHANGED <<a, b, overlap, sed, call>>

NextAdd == Add \/ AddNone

SpecAdd == InitAdd /\ [][NextAdd]_vars

(***************************************************************************)
(* Spectrum.flux_calibrate.  distance is the pair (distance, uncertainty), *)
(* flux_units "None" stands for the default argument.                      *)
(***************************************************************************)
\* One sample of flux_calibrate: k the unit factor, ratio = d/t,
\* dterm = sigma_d*d/t^2
flux_calibrate_sample(c, k, ratio, dterm) ==
    [wave |-> c.wave,
     flux |-> RMul(k, RMul(c.flux, RSquare(ratio))),
     unc_sq |-> RAdd(RMul(RSquare(k), RMul(c.unc_sq, RSquare(ratio))),
                     RSquare(RMul(k, RMul(RInt(2), RMul(c.flux, dterm)))))]

\* The flux units of the result: flux_units or self.flux_units
flux_calibrate_units(self, flux_units) ==
    IF flux_units = "None" THEN self.flux_units ELSE flux_units

flux_calibrate(self, distance, target_distance, flux_units) ==
    Spectrum(self.wave_units, flux_calibrate_units(self, flux_units),
             [i \in 1..Len(self.data) |->
                flux_calibrate_sample(
                    self.data[i],
                    FluxTo(self.flux_units, flux_calibrate_units(self, flux_units)),
                    RDiv(distance[1], target_distance),
                    RDiv(RMul(distance[2], distance[1]), RSquare(target_distance)))],
             DefaultSnrTrim)

(***************************************************************************)
(* Bandpass: the filter object handed to synthetic_flux.  wave is its      *)
(* wavelength grid in wave_units, throughput the response on that grid.    *)
(***************************************************************************)
\* bandpass.overlap(spectrum): how the filter's range lies in the spectrum's
bandpass_overlap(bandpass, spec) ==
    LET lo == WaveTo(bandpass.wave[1], bandpass.wave_units, "AA")
        hi == WaveTo(Last(bandpass.wave), bandpass.wave_units, "AA")
        first == WaveTo(spec.data[1].wave, spec.wave_units, "AA")
        last == WaveTo(Last(spec.data).wave, spec.wave_units, "AA")
    IN IF first <= lo /\ hi <= last THEN "full"
       ELSE IF hi < first \/ last < lo THEN "none"
       ELSE "partial"

\* The root of a rational that is a square
ExactRoot(n) == CHOOSE r \in 0..n : r * r = n
RSqrt(q) == <<ExactRoot(q[1]), ExactRoot(q[2])>>

\* np.gradient(wav) with unit spacing
np_gradient(wav) ==
    [i \in 1..Len(wav) |->
        IF i = 1 THEN RInt(wav[2] - wav[1])
        ELSE IF i = Len(wav) THEN RInt(wav[i] - wav[i - 1])
        ELSE Rat(wav[i + 1] - wav[i - 1], 2)]

\* np.interp(x, self.wave, self.flux, left=0, right=0)
interp_flux_zero(x, s) ==
    IF x < s[1].wave \/ x > Last(s).wave THEN RInt(0) ELSE np_interp_flux(x, s)

\* np.interp(x, self.wave, self.unc, left=0, right=0), squared
interp_unc_between(x, s, j) ==
    IF x = s[j].wave THEN s[j].unc_sq
    ELSE RSquare(RAdd(RSqrt(s[j].unc_sq),
                      RMul(RSub(RSqrt(s[j + 1].unc_sq), RSqrt(s[j].unc_sq)),
                           Rat(x - s[j].wave, s[j + 1].wave - s[j].wave))))

interp_unc_zero_sq(x, s) ==
    IF x < s[1].wave \/ x > Last(s).wave THEN RInt(0)
    ELSE interp_unc_between(x, s, interp_segment(x, s))

\* np.trapz(y, x=x)
RECURSIVE np_trapz(_, _)
np_trapz(y, x) ==
    IF Len(x) < 2 THEN RInt(0)
    ELSE LET n == Len(x)
         IN RAdd(np_trapz(SubSeq(y, 1, n - 1), SubSeq(x, 1, n - 1)),
                 RMul(Rat(x[n] - x[n - 1], 2), RAdd(y[n], y[n - 1])))

\* The sum of the elements of a sequence of rationals
RECURSIVE np_sum_values(_)
np_sum_values(y) ==
    IF Len(y) = 0 THEN RInt(0)
    ELSE RAdd(np_sum_values(SubSeq(y, 1, Len(y) - 1)), Last(y))

\* synthetic_flux without the force test: any overlap at all gives the value
\* at the filter's first wavelength
synthetic_flux_any_overlap(self, bandpass, force) ==
    IF bandpass_overlap(bandpass, self) # "none"
    THEN [self |-> set_wave_units(self, bandpass.wave_units), none |-> FALSE,
          flx |-> interp_flux_zero(bandpass.wave[1],
                     set_wave_units(self, bandpass.wave_units).data),
          unc_sq |-> interp_unc_zero_sq(bandpass.wave[1],
                        set_wave_units(self, bandpass.wave_units).data)]
    ELSE [self |-> self, none |-> TRUE, flx |-> RInt(0), unc_sq |-> RInt(0)]

(***************************************************************************)
(* Spectrum.synthetic_flux.  The value is the record of what the call      *)
(* leaves: self after the call, and the pair returned (none: the pair is   *)
(* (None, None)).                                                          *)
(***************************************************************************)
\* (sig_f*rsr*grad)**2
unc_term(sig_f_sq, rsr, grad) == RMul(sig_f_sq, RMul(RSquare(rsr), RSquare(grad)))

\* The integrals over the filter's grid, conv being self in the filter's
\* wavelength units
integrated(conv, bandpass) ==
    [self |-> conv, none |-> FALSE,
     flx |-> RDiv(np_trapz([i \in 1..Len(bandpass.wave) |->
                              RMul(interp_flux_zero(bandpass.wave[i], conv.data),
                                   bandpass.throughput[i])],
                           bandpass.wave),
                  np_trapz(bandpass.throughput, bandpass.wave)),
     unc_sq |-> np_sum_values([i \in 1..Len(bandpass.wave) |->
                   unc_term(interp_unc_zero_sq(bandpass.wave[i], conv.data),
                            bandpass.throughput[i],
                            np_gradient(bandpass.wave)[i])])]

synthetic_flux(self, bandpass, force) ==
    IF bandpass_overlap(bandpass, self)
           \in (IF force THEN {"full", "partial"} ELSE {"full"})
    THEN integrated(set_wave_units(self, bandpass.wave_units), bandpass)
    ELSE [self |-> self, none |-> TRUE, flx |-> RInt(0), unc_sq |-> RInt(0)]

(***************************************************************************)
(* Spectrum.norm_to_mags.  A photometry row carries band, app_flux,        *)
(* app_flux_unc (as its square) and bandpass.                              *)
(***************************************************************************)
\* The rows kept by the include / exclude filter
kept_rows(photometry, exclude, include) ==
    SelectSeq(photometry,
              LAMBDA row : IF include # {} THEN row.band \in include
                           ELSE row.band \notin exclude)

\* data.append(...) unless the synthetic flux is None
append_row(before, row, syn) ==
    [self |-> syn.self,
     data |-> IF syn.none THEN before.data
              ELSE Append(before.data,
                          [f1 |-> row.app_flux, e1_sq |-> row.app_flux_unc_sq,
                           f2 |-> syn.flx, e2_sq |-> syn.unc_sq,
                           weight |-> row.bandpass.FWHM])]

\* One pass of the loop over the rows
row_pass(before, row, force) ==
    append_row(before, row, synthetic_flux(before.self, row.bandpass, force))

\* The loop over the rows: self after it, and the data list
RECURSIVE synthetic_rows(_, _, _)
synthetic_rows(self, rows, force) ==
    IF Len(rows) = 0 THEN [self |-> self, data |-> <<>>]
    ELSE row_pass(synthetic_rows(self, SubSeq(rows, 1, Len(rows) - 1), force),
                  Last(rows), force)

\* weight*f*f2/(e1**2 + e2**2)
norm_term(weight, f, f2, e1_sq, e2_sq) ==
    RDiv(RMul(RInt(weight), RMul(f, f2)), RAdd(e1_sq, e2_sq))

\* numerator/denominator: weight is the scalar left by the last pass of the
\* loop, not the column weights
weighted_norm(data) ==
    RDiv(np_sum_values([i \in 1..Len(data) |->
            norm_term(Last(data).weight, data[i].f1, data[i].f2,
                      data[i].e1_sq, data[i].e2_sq)]),
         np_sum_values([i \in 1..Len(data) |->
            norm_term(Last(data).weight, data[i].f2, data[i].f2,
                      data[i].e1_sq, data[i].e2_sq)]))

\* Spectrum(self.spectrum[0], self.spectrum[1]*norm, self.spectrum[2]*norm)
norm_scaled(after, norm) ==
    [self |-> after, norm |-> norm,
     spec |-> Spectrum(after.wave_units, after.flux_units,
                       [i \in 1..Len(after.data) |->
                          [after.data[i] EXCEPT !.flux = RMul(@, norm),
                                                !.unc_sq = RMul(@, RSquare(norm))]],
                       DefaultSnrTrim)]

\* norm is 1 when the loop appended nothing
norm_looped(looped) ==
    norm_scaled(looped.self,
                IF Len(looped.data) = 0 THEN RInt(1) ELSE weighted_norm(looped.data))

\* The value is self after the call, the scale factor and the Spectrum
\* returned
norm_to_mags(self, photometry, force, exclude, include) ==
    norm_looped(synthetic_rows(self, kept_rows(photometry, exclude, include), force))

(***************************************************************************)
(* SpecMethods: one Spectrum object a and one call of flux_calibrate,      *)
(* synthetic_flux or norm_to_mags on it.  call holds the arguments (and    *)
(* self as it was before the call), result what the call returned.         *)
(***************************************************************************)
Bands == {"J", "H", "K"}

\* s.bandpass(band): filters on a grid of whole microns
bandpass(band) ==
    IF band = "J"
    THEN [band |-> "J", wave_units |-> "um", wave |-> <<1, 2>>,
          throughput |-> <<RInt(1), RInt(1)>>, eff |-> 1, FWHM |-> 1,
          zp |-> RInt(10)]
    ELSE IF band = "H"
    THEN [band |-> "H", wave_units |-> "um", wave |-> <<2, 3>>,
          throughput |-> <<RInt(1), RInt(1)>>, eff |-> 2, FWHM |-> 2,
          zp |-> RInt(20)]
    ELSE [band |-> "K", wave_units |-> "um", wave |-> <<4, 5>>,
          throughput |-> <<RInt(1), RInt(1)>>, eff |-> 4, FWHM |-> 3,
          zp |-> RInt(10)]

\* Photometry rows and tables (sorted by eff, at most MaxRows rows)
MaxRows == 2
PhotRows ==
    {[band |-> band, eff |-> bandpass(band).eff, app_flux |-> f,
      app_flux_unc_sq |-> RInt(1), bandpass |-> bandpass(band)] :
        band \in Bands, f \in {RInt(10), RInt(4)}}
PhotTables ==
    {p \in UNION {[1..n -> PhotRows] : n \in 0..MaxRows} :
        \A i \in 1..(Len(p) - 1) : p[i].eff < p[i + 1].eff}

InitMethods ==
    /\ \E wu \in WaveUnits, raw \in RawArrays, st \in SnrTrims :
          a = NewSpectrum(wu, "erg/s/cm2/AA", raw, st)
    /\ b = NoSpectrum
    /\ result = NoSpectrum
    /\ overlap = FALSE
    /\ pc = "start"
    /\ sed = NoSED
    /\ call = NoCall

\* result = a.flux_calibrate(distance, target_distance, flux_units)
FluxCalibrate ==
    /\ pc = "start"
    /\ \E distance \in {<<RInt(20), RInt(2)>>, <<RInt(10), RInt(1)>>},
          target \in {RInt(10), RInt(20)}, fu \in FluxUnits \cup {"None"} :
          /\ result' = flux_calibrate(a, distance, target, fu)
          /\ call' = [name |-> "flux_calibrate", self |-> a, distance |-> distance,
                      target_distance |-> target, flux_units |-> fu]
    /\ pc' = "flux_calibrate"
    /\ UNCHANGED <<a, b, overlap, sed>>

\* result = a.synthetic_flux(bandpass, force)
SyntheticFlux ==
    /\ pc = "start"
    /\ \E band \in Bands, force \in BOOLEAN :
          /\ \E ret \in {synthetic_flux(a, bandpass(band), force)} :
                /\ a' = ret.self
                /\ result' = [none |-> ret.none, flx |-> ret.flx, unc_sq |-> ret.unc_sq]
          /\ call' = [name |-> "synthetic_flux", self |-> a,
                      bandpass |-> bandpass(band), force |-> force]
    /\ pc' = "synthetic_flux"
    /\ UNCHANGED <<b, overlap, sed>>

\* result = a.norm_to_mags(photometry, exclude=..., include=...)
NormToMags ==
    /\ pc = "start"
    /\ \E photometry \in PhotTables, exclude \in {{}, {"J"}}, include \in {{}, {"H"}} :
          \E ret \in {norm_to_mags(a, photometry, FALSE, exclude, include)} :
             /\ a' = ret.self
             /\ result' = ret.spec
             /\ call' = [name |-> "norm_to_mags", self |-> a,
                         photometry |-> photometry, exclude |-> exclude,
                         include |-> include, norm |-> ret.norm]
    /\ pc' = "norm_to_mags"
    /\ UNCHANGED <<b, overlap, sed>>

NextMethods == FluxCalibrate \/ SyntheticFlux \/ NormToMags

SpecMethods == InitMethods /\ [][NextMethods]_vars

(***************************************************************************)
(* SED: the list of spectra and its calibration.                           *)
(***************************************************************************)
MaxSedLen == 2

\* An entry of SED.stitched_spectra: a Spectrum object, or a Python list of
\* Spectrum objects.
AsSpectrum(spec) == [kind |-> "Spectrum", spec |-> spec, items |-> <<>>]

\* np.where(np.logical_and(S.wave<s.wave[-1], S.wave>s.wave[0]))[0], the
\* indexes counted from 1
inside_idx(S, s) ==
    {i \in 1..Len(S.data) :
        S.data[i].wave < Last(s.data).wave /\ S.data[i].wave > s.data[1].wave}

\* The groups of group_spectra, as sequences of positions in spectra, from
\* anchor N on; idx is the set of positions already grouped.
\* The elements of a set of positions in ascending order
Ascending_idx(S) ==
    [i \in 1..Cardinality(S) |->
        CHOOSE n \in S : Cardinality({m \in S : m < n}) = i - 1]

RECURSIVE group_from(_, _, _)
group_from(spectra, N, idx) ==
    IF N > Len(spectra) THEN <<>>
    ELSE IF N \in idx THEN group_from(spectra, N + 1, idx)
    ELSE LET found == {n \in 1..Len(spectra) :
                          /\ n \notin idx \cup {N}
                          /\ py_any(inside_idx(spectra[N], spectra[n]))}
         IN <<(<<N>> \o Ascending_idx(found))>>
            \o group_from(spectra, N + 1, idx \cup {N} \cup found)

\* Grouping without the list idx of the spectra already grouped: every
\* spectrum anchors a group of its own
group_every_anchor(spectra) ==
    [N \in 1..Len(spectra) |->
        <<N>> \o Ascending_idx({n \in (1..Len(spectra)) \ {N} :
                                   py_any(inside_idx(spectra[N], spectra[n]))})]

group_spectra(spectra) == group_from(spectra, 1, {})

\* np.sum(group): the objects added pairwise from the left
RECURSIVE np_sum(_)
np_sum(group) ==
    IF Len(group) = 1 THEN group[1]
    ELSE Spectrum_add(np_sum(SubSeq(group, 1, Len(group) - 1)), Last(group))

\* What np.sum(group) leaves in the group's objects: each right operand in
\* the units of the running sum
RECURSIVE np_sum_operands(_)
np_sum_operands(group) ==
    IF Len(group) = 1 THEN group
    ELSE LET head == SubSeq(group, 1, Len(group) - 1)
         IN np_sum_operands(head) \o <<same_units(np_sum(head), Last(group))>>

(***************************************************************************)
(* The helpers of SEDkit/utilities.py that the SED calls.  A magnitude is  *)
(* a rational multiple of 5/2; a magnitude uncertainty is kept as the      *)
(* square of its multiple of 2.5/ln(10), which is the relative flux        *)
(* uncertainty.  A distance or parallax is the pair (value, uncertainty),  *)
(* in parsec or milliarcseconds.                                           *)
(***************************************************************************)
Pow10(k) == IF k >= 0 THEN RInt(10 ^ k) ELSE <<1, 10 ^ (0 - k)>>

Log10(x) == CHOOSE k \in (0 - 6)..6 : Pow10(k) = x

\* u.pi2pc: parsec from milliarcseconds, and back with pc2pi=True
pi2pc(x) ==
    LET val == RDiv(RInt(1000), x[1])
    IN <<val, RDiv(RMul(x[2], val), x[1])>>

\* A flux with the uncertainty of relative size sig_m
flux_with_unc(flux, sig_m_sq) ==
    [flux |-> flux, unc_sq |-> RMul(RSquare(flux), sig_m_sq)]

\* u.mag2flux: zero point * 10^(-0.4 mag), in erg/s/cm2/AA
mag2flux(band, mag, sig_m_sq) ==
    flux_with_unc(RMul(bandpass(band).zp, Pow10(RDiv(mag, <<0 - 5, 2>>)[1])),
                  sig_m_sq)

\* u.flux_calibrate of magnitudes: the distance modulus to 10 pc
flux_calibrate_mag(mag, distance, sig_m_sq) ==
    [mag |-> RSub(mag, RMul(RInt(5), RInt(Log10(RDiv(distance[1], RInt(10)))))),
     unc_sq |-> RAdd(sig_m_sq,
                     RSquare(RDiv(RMul(RInt(2), distance[2]), distance[1])))]

\* One sample of u.flux_calibrate of a flux array, scale = (d/10)^2
flux_calibrate_flux_sample(c, scale, distance) ==
    [flux |-> RMul(c.flux, scale),
     unc_sq |-> RAdd(RMul(c.unc_sq, RSquare(scale)),
                     RSquare(RDiv(RMul(RInt(2), RMul(c.flux, RMul(distance[2],
                                                                  distance[1]))),
                                  RInt(100))))]

\* u.flux_calibrate of a flux array: the square law to 10 pc
flux_calibrate_flux(data, distance) ==
    [i \in 1..Len(data) |->
        flux_calibrate_flux_sample(data[i], RSquare(RDiv(distance[1], RInt(10))),
                                   distance)]

\* The photometry property: the table sorted by eff
RECURSIVE InsertByEff(_, _)
InsertByEff(row, sorted) ==
    IF Len(sorted) = 0 THEN <<row>>
    ELSE IF row.eff < sorted[1].eff THEN <<row>> \o sorted
    ELSE <<sorted[1]>> \o InsertByEff(row, Tail(sorted))

RECURSIVE SortByEff(_)
SortByEff(table) ==
    IF Len(table) = 0 THEN <<>>
    ELSE InsertByEff(table[1], SortByEff(Tail(table)))

\* app_flux.to(self.flux_units): k the factor from erg/s/cm2/AA
to_flux_units(f, k) == [flux |-> RMul(f.flux, k), unc_sq |-> RMul(f.unc_sq, RSquare(k))]

\* A row with its apparent flux app
apparent_row(self, row, app) ==
    [row EXCEPT !.eff = WaveTo(row.bandpass.eff, "um", self.wave_units),
                !.app_flux = app.flux,
                !.app_flux_unc_sq = app.unc_sq]

\* A row with its absolute magnitude M and absolute flux abs
absolute_row(row, M, abs) ==
    [row EXCEPT !.abs_magnitude = M.mag,
                !.abs_magnitude_unc_sq = M.unc_sq,
                !.abs_flux = abs.flux,
                !.abs_flux_unc_sq = abs.unc_sq]

\* "Calculate abs_flux values", M the absolute magnitude of the row
absolute_from(self, row, M) ==
    absolute_row(row, M, to_flux_units(mag2flux(row.band, M.mag, M.unc_sq),
                                       FluxTo("erg/s/cm2/AA", self.flux_units)))

\* "Calculate absolute mags": if self._distance is not None
with_absolute(self, row) ==
    IF self.distance = "None" THEN row
    ELSE absolute_from(self, row,
                       flux_calibrate_mag(row.app_magnitude, self.distance,
                                          row.app_magnitude_unc_sq))

\* One row of the table after the loops of _calibrate_photometry
calibrated_row(self, row) ==
    with_absolute(self,
                  apparent_row(self, row,
                               to_flux_units(mag2flux(row.band, row.app_magnitude,
                                                      row.app_magnitude_unc_sq),
                                             FluxTo("erg/s/cm2/AA", self.flux_units))))

\* phot_array: the rows with positive app_flux and app_flux_unc
phot_array(rows) ==
    SelectSeq([i \in 1..Len(rows) |->
                  [wave |-> rows[i].eff, flux |-> rows[i].app_flux,
                   unc_sq |-> rows[i].app_flux_unc_sq]],
              LAMBDA c : c.flux[1] > 0 /\ c.unc_sq[1] > 0)

\* self.app_phot_SED = ...; self.abs_phot_SED = u.flux_calibrate(...,
\* self.distance[0], ...).  The absolute photometric SED is computed from
\* self.distance[0] whether or not a distance is set: subscripting None is a
\* TypeError.
photometric_SEDs(self, rows, app_phot_SED) ==
    IF self.distance = "None"
    THEN [self EXCEPT !.trace = Append(@, "_calibrate_photometry"),
                      !.photometry = rows,
                      !.app_phot_SED = app_phot_SED,
                      !.attrs = @ \cup {"app_phot_SED"},
                      !.raised = "TypeError"]
    ELSE [self EXCEPT !.trace = Append(@, "_calibrate_photometry"),
                      !.photometry = rows,
                      !.app_phot_SED = app_phot_SED,
                      !.abs_phot_SED = flux_calibrate_flux(app_phot_SED.data,
                                                           self.distance),
                      !.attrs = @ \cup {"app_phot_SED", "abs_phot_SED"},
                      !.raised = ""]

\* The part of _calibrate_photometry after the loops over the rows
calibrated_rows(self, rows) ==
    photometric_SEDs(self, rows,
                     Spectrum(self.wave_units, self.flux_units, phot_array(rows),
                              DefaultSnrTrim))

\* SED._calibrate_photometry
calibrate_photometry(self) ==
    IF Len(self.photometry) = 0
    THEN [self EXCEPT !.trace = Append(@, "_calibrate_photometry"), !.raised = ""]
    ELSE calibrated_rows(self,
                         [i \in 1..Len(self.photometry) |->
                            calibrated_row(self, SortByEff(self.photometry)[i])])

\* The spectra, the groups and the entries of stitched_spectra for two or
\* more spectra: a group of several is summed, a group of one is the list
\* of its spectrum
grouped_spectra(updated, groups) ==
    LET objects(g) == [i \in 1..Len(g) |-> updated[g[i]]]
        holds(g, i) == \E j \in 1..Len(g) : g[j] = i
        group_of(i) == groups[CHOOSE k \in 1..Len(groups) : holds(groups[k], i)]
    IN [spectra |-> [i \in 1..Len(updated) |->
                       IF \E k \in 1..Len(groups) : holds(groups[k], i)
                       THEN np_sum_operands(objects(group_of(i)))
                                [CHOOSE j \in 1..Len(group_of(i)) : group_of(i)[j] = i]
                       ELSE updated[i]],
        groups |-> groups,
        grouped |-> [k \in 1..Len(groups) |->
                       IF Len(groups[k]) > 1
                       THEN AsSpectrum(np_sum(objects(groups[k])))
                       ELSE [kind |-> "list", spec |-> NoSpectrum,
                             items |-> objects(groups[k])]]]

\* "Group overlapping spectra and make composites where possible"
made_spectra(updated) ==
    IF Len(updated) > 1 THEN grouped_spectra(updated, group_spectra(updated))
    ELSE [spectra |-> updated, groups |-> <<>>,
          grouped |-> [i \in 1..Len(updated) |-> AsSpectrum(updated[i])]]

\* "Renormalize the stitched spectra": what norm_to_mags leaves for each
\* entry that has the method
normed_spectra(self, grouped) ==
    [k \in 1..Len(grouped) |->
        IF grouped[k].kind = "Spectrum"
        THEN norm_to_mags(grouped[k].spec, self.photometry, FALSE, {}, {})
        ELSE [self |-> NoSpectrum, norm |-> RInt(1), spec |-> NoSpectrum]]

\* The assignments of _calibrate_spectra.  A list entry of stitched_spectra
\* has no norm_to_mags (AttributeError); sum() of several Spectrum objects
\* starts from the int 0, which Spectrum cannot be added to (TypeError).  An
\* exception leaves the attributes as assigned so far, and the objects that
\* norm_to_mags was called on as it left them.
stitched_SEDs(self, made, looped) ==
    LET n == Len(self.spectra)
        lists == {k \in 1..Len(made.grouped) : made.grouped[k].kind = "list"}
        touched == [k \in 1..Len(made.grouped) |->
                      IF k < SetMin(lists) THEN AsSpectrum(looped[k].self)
                      ELSE made.grouped[k]]
        normed == [k \in 1..Len(made.grouped) |-> AsSpectrum(looped[k].spec)]
        assigned == [self EXCEPT !.trace = Append(@, "_calibrate_spectra"),
                                 !.spectra = IF n = 1 THEN <<looped[1].self>>
                                             ELSE made.spectra,
                                 !.groups = made.groups,
                                 !.attrs = @ \cup {"stitched_spectra"}]
        apparent == [assigned EXCEPT !.stitched_spectra = normed,
                                     !.app_spec_SED = normed[1].spec,
                                     !.attrs = @ \cup {"app_spec_SED"},
                                     !.raised = ""]
    IN IF lists # {}
       THEN [assigned EXCEPT !.stitched_spectra = touched,
                             !.raised = "AttributeError"]
       ELSE IF Len(normed) > 1
       THEN [assigned EXCEPT !.stitched_spectra = normed,
                             !.raised = "TypeError"]
       ELSE IF self.distance = "None" THEN apparent
       ELSE [apparent EXCEPT
                !.abs_spec_SED = flux_calibrate_flux(looped[1].spec.data,
                                                     self.distance),
                !.attrs = @ \cup {"abs_spec_SED"}]

\* The part of _calibrate_spectra after the grouping
stitch_spectra(self, made) ==
    stitched_SEDs(self, made, normed_spectra(self, made.grouped))

\* SED._calibrate_spectra
calibrate_spectra(self) ==
    IF Len(self.spectra) = 0
    THEN [self EXCEPT !.trace = Append(@, "_calibrate_spectra"), !.raised = ""]
    ELSE stitch_spectra(self,
                        made_spectra([i \in 1..Len(self.spectra) |->
                                        set_flux_units(self.spectra[i],
                                                       self.flux_units)]))

\* _calibrate_spectra, unless _calibrate_photometry raised
then_calibrate_spectra(phot) ==
    IF phot.raised # "" THEN phot ELSE calibrate_spectra(phot)

\* The two recalibrations of a setter: an exception in the first ends the
\* call
recalibrate(self) == then_calibrate_spectra(calibrate_photometry(self))

\* SED.add_spectrum, spec the Spectrum object built from the arguments
SED_add_spectrum(self, spec) ==
    LET conv == set_flux_units(set_wave_units(spec, self.wave_units), self.flux_units)
    IN calibrate_spectra([self EXCEPT !.spectra = Append(@, conv), !.trace = <<>>])

\* SED.add_photometry
SED_add_photometry(self, band, mag, mag_unc_sq) ==
    LET bp == bandpass(band)
        new_photometry ==
            [band |-> band, eff |-> WaveTo(bp.eff, "um", self.wave_units),
             app_magnitude |-> mag, app_magnitude_unc_sq |-> mag_unc_sq,
             app_flux |-> RInt(0), app_flux_unc_sq |-> RInt(0),
             abs_magnitude |-> RInt(0), abs_magnitude_unc_sq |-> RInt(0),
             abs_flux |-> RInt(0), abs_flux_unc_sq |-> RInt(0), bandpass |-> bp]
    IN calibrate_photometry([self EXCEPT !.photometry = Append(@, new_photometry),
                                         !.trace = <<>>])

\* A distance setter that stores the distance and leaves the parallax as it
\* was
set_distance_only(self, distance) ==
    recalibrate([self EXCEPT !.distance = distance, !.trace = <<>>])

\* SED.distance setter
SED_set_distance(self, distance) ==
    recalibrate([self EXCEPT !.distance = distance, !.parallax = pi2pc(distance),
                             !.trace = <<>>])

\* SED.parallax setter
SED_set_parallax(self, parallax) ==
    recalibrate([self EXCEPT !.parallax = parallax, !.distance = pi2pc(parallax),
                             !.trace = <<>>])

\* SED.wave_units setter
SED_set_wave_units(self, wave_units) ==
    recalibrate([self EXCEPT !.wave_units = wave_units, !.trace = <<>>])

\* SED.flux_units setter
SED_set_flux_units(self, flux_units) ==
    recalibrate([self EXCEPT !.flux_units = flux_units, !.trace = <<>>])

\* SED.make_sed up to the line that builds app_SED.  wein stands at
\* wavelength 0 for the program's 0.00001, with 1/1000 for its 1E-30; of the
\* Rayleigh-Jeans tail (0.1 um steps up to 500 um) rj keeps the first
\* wavelength and the flux it is normalised to.  np.sum(self.wein,
\* self.app_specphot_SED, self.rj) passes the second Spectrum as axis and
\* the third as dtype: a TypeError, so the lines after it never run.
SED_make_sed(self) ==
    LET tiny == <<1, 1000>>
        phot == self.app_phot_SED.data
        last_wave == Last(phot).wave
        rj == <<[wave |-> IF last_wave < 12 THEN last_wave ELSE 12,
                 flux |-> Last(phot).flux]>>
        spec_wave(k) == self.stitched_spectra[k].spec.data
        covered == {idx \in 1..Len(phot) :
                       \E k \in 1..Len(self.stitched_spectra) :
                           /\ phot[idx].wave < Last(spec_wave(k)).wave
                           /\ phot[idx].wave > spec_wave(k)[1].wave}
        app_specphot_SED(uncovered) ==
            IF Len(uncovered) = 0 THEN NoSpectrum
            ELSE Spectrum(self.wave_units, self.flux_units, uncovered, DefaultSnrTrim)
        tail(started) ==
            LET tailed == [started EXCEPT !.rj = rj, !.attrs = @ \cup {"rj"}]
            IN IF "stitched_spectra" \notin self.attrs
               THEN [tailed EXCEPT !.raised = "AttributeError"]
               ELSE IF \E k \in 1..Len(self.stitched_spectra) :
                           self.stitched_spectra[k].kind = "list"
               THEN [tailed EXCEPT !.raised = "AttributeError"]
               ELSE [tailed EXCEPT
                        !.app_specphot_SED =
                            app_specphot_SED(SelectSeq(phot,
                                LAMBDA c : \A idx \in covered : phot[idx] # c)),
                        !.attrs = @ \cup {"app_specphot_SED"},
                        !.raised = "TypeError"]
        start(started) ==
            IF "app_phot_SED" \notin self.attrs
            THEN [started EXCEPT !.raised = "AttributeError"]
            ELSE IF Len(phot) = 0
            THEN [started EXCEPT !.raised = "IndexError"]
            ELSE tail(started)
    IN start([self EXCEPT
                 !.trace = <<>>,
                 !.wein = Spectrum(self.wave_units, self.flux_units,
                                   <<[wave |-> 0, flux |-> tiny,
                                      unc_sq |-> RMul(tiny, tiny)]>>,
                                   DefaultSnrTrim),
                 !.attrs = @ \cup {"wein"}])

(***************************************************************************)
(* SpecSED: one SED object and calls of add_spectrum on it.                *)
(***************************************************************************)
InitSED ==
    /\ a = NoSpectrum
    /\ b = NoSpectrum
    /\ result = NoSpectrum
    /\ overlap = FALSE
    /\ pc = "sed"
    /\ sed = NoSED
    /\ call = NoCall

\* sed.add_spectrum(wave, flux, unc, snr_trim=...)
add_spectrum ==
    /\ pc = "sed"
    /\ Len(sed.spectra) < MaxSpectra
    /\ \E wu \in WaveUnits, raw \in {s \in RawArrays : Len(s) <= MaxSedLen},
          st \in SnrTrims :
          sed' = SED_add_spectrum(sed, NewSpectrum(wu, "erg/s/cm2/AA", raw, st))
    /\ UNCHANGED <<a, b, result, overlap, pc, call>>

NextSED == add_spectrum

SpecSED == InitSED /\ [][NextSED]_vars

(***************************************************************************)
(* SpecInit: one call of Spectrum(wave, flux, unc, snr_trim=.., trim=..).  *)
(* call holds the arguments (unc as the squares of its elements, empty for *)
(* unc=None) and the exception raised, result the object built.            *)
(***************************************************************************)
\* Samples at ascending whole wavelengths with a (flux, unc) pair of
\* SampleVals or a flux of zero
InitArrays ==
    {s \in UNION {[1..n -> {RawColumn(w, v) : w \in 1..MaxWave,
                                             v \in SampleVals \cup {<<0, 1>>}}] :
                    n \in 1..MaxLen} :
        \A i \in 1..(Len(s) - 1) : s[i].wave < s[i + 1].wave}

\* The arrays are the first nw wavelengths, nf fluxes and nu uncertainties
\* of such samples.  The shape test raises when wave and flux differ and,
\* besides, unc is None or differs from flux.  Arrays of different lengths
\* that pass it go on to u.scrub and numpy: either the elements they share
\* are used or an indexing or broadcasting error is raised.
Construct ==
    /\ pc = "sed"
    /\ pc' = "__init__"
    /\ \E wu \in WaveUnits, raw \in InitArrays, nw \in 1..MaxLen, nf \in 1..MaxLen,
          nu \in 0..MaxLen, st \in SnrTrims,
          trim \in {<<>>, <<(<<2, 3>>)>>, <<(<<1, 4>>)>>, <<(<<1, 1>>), (<<3, 4>>)>>} :
          /\ Len(raw) \in {nw, nf, nu}
          /\ nw <= Len(raw) /\ nf <= Len(raw) /\ nu <= Len(raw)
          /\ \E args \in {[name |-> "__init__", wave_units |-> wu,
                           wave |-> [i \in 1..nw |-> WaveTo(raw[i].wave, "um", wu)],
                           flux |-> [i \in 1..nf |-> raw[i].flux],
                           unc_is_None |-> nu = 0,
                           unc |-> [i \in 1..nu |-> raw[i].unc_sq],
                           snr_trim |-> st, trim |-> trim, raised |-> ""]},
                n \in {IF nu = 0 THEN SetMin({nw, nf}) ELSE SetMin({nw, nf, nu})} :
                \/ /\ nw # nf /\ (nu = 0 \/ nu # nf)
                   /\ call' = [args EXCEPT !.raised = "TypeError"]
                   /\ result' = NoSpectrum
                \/ /\ ~ (nw # nf /\ (nu = 0 \/ nu # nf))
                   /\ call' = args
                   /\ result' = Spectrum_init(wu, "erg/s/cm2/AA",
                                   [i \in 1..n |->
                                       [wave |-> args.wave[i], flux |-> args.flux[i],
                                        unc_sq |-> IF nu = 0
                                                   THEN Rat(args.flux[i][1] ^ 2, 100)
                                                   ELSE args.unc[i]]],
                                   st, trim)
                \/ /\ ~ (nw # nf /\ (nu = 0 \/ nu # nf))
                   /\ nw # nf \/ (nu # 0 /\ nu # nf)
                   /\ \E error \in {"IndexError", "ValueError"} :
                         call' = [args EXCEPT !.raised = error]
                   /\ result' = NoSpectrum
    /\ UNCHANGED <<a, b, overlap, sed>>

NextInit == Construct

SpecInit == InitSED /\ [][NextInit]_vars

(***************************************************************************)
(* SpecCal: one SED object with photometry, spectra, a distance and units; *)
(* call.name is the method or setter called last.                          *)
(***************************************************************************)
MaxCalSpectra == 2

\* add_spectrum of two samples one micron apart, from 1 or 2 um, flux 10 +- 1
AddSpectrum ==
    /\ pc = "sed"
    /\ Len(sed.spectra) < MaxCalSpectra
    /\ \E raw \in {s \in RawArrays :
                     /\ Len(s) = 2
                     /\ s[1].wave <= 2
                     /\ s[2].wave = s[1].wave + 1
                     /\ s[1].flux = RInt(10) /\ s[2].flux = RInt(10)} :
          sed' = SED_add_spectrum(sed, NewSpectrum("AA", "erg/s/cm2/AA", raw,
                                                   DefaultSnrTrim))
    /\ call' = [name |-> "add_spectrum"]
    /\ UNCHANGED <<a, b, result, overlap, pc>>

\* add_photometry of a magnitude 0 with a relative flux uncertainty of 1/10
AddPhotometry ==
    /\ pc = "sed"
    /\ Len(sed.photometry) < MaxRows
    /\ \E band \in {"J", "H"}, mag \in {RInt(0)}, mag_unc_sq \in {<<1, 100>>} :
          /\ \A i \in 1..Len(sed.photometry) : sed.photometry[i].band # band
          /\ sed' = SED_add_photometry(sed, band, mag, mag_unc_sq)
    /\ call' = [name |-> "add_photometry"]
    /\ UNCHANGED <<a, b, result, overlap, pc>>

\* sed.distance = (value, uncertainty) in parsec
SetDistance ==
    /\ pc = "sed"
    /\ \E distance \in {<<RInt(10), RInt(1)>>, <<RInt(1), <<1, 10>>>>} :
          sed' = SED_set_distance(sed, distance)
    /\ call' = [name |-> "distance"]
    /\ UNCHANGED <<a, b, result, overlap, pc>>

\* sed.parallax = (value, uncertainty) in milliarcseconds
SetParallax ==
    /\ pc = "sed"
    /\ \E parallax \in {<<RInt(100), RInt(10)>>, <<RInt(1000), RInt(100)>>} :
          sed' = SED_set_parallax(sed, parallax)
    /\ call' = [name |-> "parallax"]
    /\ UNCHANGED <<a, b, result, overlap, pc>>

SetWaveUnits ==
    /\ pc = "sed"
    /\ \E wave_units \in WaveUnits : sed' = SED_set_wave_units(sed, wave_units)
    /\ call' = [name |-> "wave_units"]
    /\ UNCHANGED <<a, b, result, overlap, pc>>

SetFluxUnits ==
    /\ pc = "sed"
    /\ \E flux_units \in FluxUnits : sed' = SED_set_flux_units(sed, flux_units)
    /\ call' = [name |-> "flux_units"]
    /\ UNCHANGED <<a, b, result, overlap, pc>>

\* sed.drop_spectrum(idx): the list without the spectrum at idx, and nothing
\* else
DropSpectrum ==
    /\ pc = "sed"
    /\ \E idx \in 1..Len(sed.spectra) :
          sed' = [sed EXCEPT !.spectra = SubSeq(@, 1, idx - 1)
                                             \o SubSeq(@, idx + 1, Len(@)),
                             !.trace = <<>>, !.raised = ""]
    /\ call' = [name |-> "drop_spectrum"]
    /\ UNCHANGED <<a, b, result, overlap, pc>>

\* sed.drop_photometry(idx): the table without the row at idx, and nothing
\* else
DropPhotometry ==
    /\ pc = "sed"
    /\ \E idx \in 1..Len(sed.photometry) :
          sed' = [sed EXCEPT !.photometry = SubSeq(@, 1, idx - 1)
                                                \o SubSeq(@, idx + 1, Len(@)),
                             !.trace = <<>>, !.raised = ""]
    /\ call' = [name |-> "drop_photometry"]
    /\ UNCHANGED <<a, b, result, overlap, pc>>

\* sed.make_sed(); the model follows the object up to this call
MakeSed ==
    /\ pc = "sed"
    /\ sed' = SED_make_sed(sed)
    /\ call' = [name |-> "make_sed"]
    /\ pc' = "made"
    /\ UNCHANGED <<a, b, result, overlap>>

NextCal ==
    \/ MakeSed
    \/ AddSpectrum
    \/ AddPhotometry
    \/ SetDistance
    \/ SetParallax
    \/ SetWaveUnits
    \/ SetFluxUnits

SpecCal == InitSED /\ [][NextCal]_vars

(***************************************************************************)
(* SpecDrop: one SED object with a distance, on which spectra and          *)
(* photometry are added and dropped.                                       *)
(***************************************************************************)
NextDrop ==
    \/ SetDistance
    \/ AddSpectrum
    \/ AddPhotometry
    \/ DropSpectrum
    \/ DropPhotometry

SpecDrop == InitSED /\ [][NextDrop]_vars

(***************************************************************************)
(* The derived parameters of an SED.  fbol is the pair (value, squared     *)
(* uncertainty) in erg/s/cm2; a bolometric magnitude is the pair of the    *)
(* magnitude and the square of its uncertainty in units of 2.5/ln(10),     *)
(* which is a relative flux uncertainty.  The uncertainties are kept       *)
(* before round(.., 3).                                                    *)
(***************************************************************************)
\* m = self.flux_units*self.wave_units, in erg/s/cm2
integral_factor(self) ==
    RMul(FluxTo(self.flux_units, "erg/s/cm2/AA"),
         Rat(WaveFactor("AA"), WaveFactor(self.wave_units)))

\* (self.unc*np.gradient(self.wave)*m)**2 of sample i
integral_unc_term(self, i, grad, m) ==
    RMul(self.data[i].unc_sq, RMul(RSquare(grad[i]), RSquare(m)))

\* Spectrum.integral
Spectrum_integral(self) ==
    [val |-> RMul(np_trapz([i \in 1..Len(self.data) |-> self.data[i].flux],
                           [i \in 1..Len(self.data) |-> self.data[i].wave]),
                  integral_factor(self)),
     unc_sq |-> np_sum_values([i \in 1..Len(self.data) |->
                   integral_unc_term(self, i,
                       np_gradient([j \in 1..Len(self.data) |-> self.data[j].wave]),
                       integral_factor(self))])]

\* SED.get_fbol: app_SED is read whether or not it was ever assigned
SED_get_fbol(self) ==
    IF "app_SED" \notin self.attrs THEN [self EXCEPT !.raised = "AttributeError"]
    ELSE [self EXCEPT !.fbol = Spectrum_integral(self.app_SED),
                      !.attrs = @ \cup {"fbol"}]

\* if not hasattr(self, 'fbol'): self.get_fbol()
with_fbol(self) == IF "fbol" \in self.attrs THEN self ELSE SED_get_fbol(self)

\* mbol = round(-2.5*np.log10(fbol) - 11.482, 3), mbol_unc
mbol_of(fbol) ==
    [mag |-> Rat(0 - (2500 * Log10(fbol.val) + 11482), 1000),
     unc_sq |-> RDiv(fbol.unc_sq, RSquare(fbol.val))]

\* The part of get_mbol after fbol is there
mbol_from(has_fbol) ==
    IF has_fbol.raised # "" THEN has_fbol
    ELSE [has_fbol EXCEPT !.mbol = mbol_of(has_fbol.fbol),
                          !.attrs = @ \cup {"mbol"}]

\* SED.get_mbol
SED_get_mbol(self) == mbol_from(with_fbol(self))

\* if not hasattr(self, 'mbol'): self.get_mbol()
with_mbol(self) == IF "mbol" \in self.attrs THEN self ELSE SED_get_mbol(self)

\* Mbol = round(mbol - 5*np.log10(distance/10), 3), Mbol_unc
Mbol_of(mbol, distance) ==
    [mag |-> RSub(mbol.mag, RInt(5 * Log10(RDiv(distance[1], RInt(10))))),
     unc_sq |-> RAdd(mbol.unc_sq, RSquare(RDiv(distance[2], distance[1])))]

\* The part of get_Mbol after mbol is there
Mbol_from(has_mbol) ==
    IF has_mbol.raised # "" \/ has_mbol.distance = "None" THEN has_mbol
    ELSE [has_mbol EXCEPT !.Mbol = Mbol_of(has_mbol.mbol, has_mbol.distance),
                          !.attrs = @ \cup {"Mbol"}]

\* SED.get_Mbol
SED_get_Mbol(self) == Mbol_from(with_mbol(self))

\* The part of get_Lbol after fbol is there.  Lbol_unc is computed from
\* self.Lbol, an attribute that only the assignment three lines further
\* down creates: reading it is an AttributeError.
Lbol_from(has_fbol) ==
    IF has_fbol.raised # "" \/ has_fbol.distance = "None" THEN has_fbol
    ELSE [has_fbol EXCEPT !.raised = "AttributeError"]

\* SED.get_Lbol
SED_get_Lbol(self) == Lbol_from(with_fbol(self))

\* SED.get_Teff: self.Lbol is read, which no call has assigned
SED_get_Teff(self) ==
    IF self.distance # "None" /\ self.radius # "None"
    THEN [self EXCEPT !.raised = "AttributeError"]
    ELSE self

\* get_Mbol and get_Teff of fundamental_params, unless get_Lbol raised
Teff_after(has_Mbol) ==
    IF has_Mbol.raised # "" THEN has_Mbol ELSE SED_get_Teff(has_Mbol)

Mbol_after(has_Lbol) ==
    IF has_Lbol.raised # "" THEN has_Lbol ELSE Teff_after(SED_get_Mbol(has_Lbol))

\* SED.fundamental_params
SED_fundamental_params(self) == Mbol_after(SED_get_Lbol(self))

\* The radius setter
SED_set_radius(self, radius) == [self EXCEPT !.radius = radius, !.raised = ""]

\* A method call starts with no exception raised
called(self) == [self EXCEPT !.raised = "", !.trace = <<>>]

(***************************************************************************)
(* SpecParams: an SED object, built with or without a composite apparent   *)
(* SED, and the calls of the derived-parameter methods on it.              *)
(***************************************************************************)
\* Composite SEDs of two samples one micron apart from 1 or 2 um, of flux
\* 1 or 10 W/m2/um with an uncertainty of a tenth of it
ParamSEDs ==
    {Spectrum("um", "W/m2/um",
              [i \in 1..2 |-> [wave |-> w + i - 1, flux |-> RInt(f),
                               unc_sq |-> Rat(f * f, 100)]],
              DefaultSnrTrim) : w \in 1..2, f \in {1, 10}}

\* SED(**kwargs): setattr of each keyword, app_SED among them or not
InitParams ==
    /\ a = NoSpectrum
    /\ b = NoSpectrum
    /\ result = NoSpectrum
    /\ overlap = FALSE
    /\ pc = "sed"
    /\ sed \in {NoSED} \cup {[NoSED EXCEPT !.app_SED = s, !.attrs = {"app_SED"}] :
                               s \in ParamSEDs}
    /\ call = NoCall

SetRadius ==
    /\ pc = "sed"
    /\ \E radius \in {<<RInt(1), <<1, 10>>>>, <<RInt(2), <<1, 10>>>>} :
          sed' = SED_set_radius(sed, radius)
    /\ call' = [name |-> "radius"]
    /\ UNCHANGED <<a, b, result, overlap, pc>>

GetFbol ==
    /\ pc = "sed"
    /\ sed' = SED_get_fbol(called(sed))
    /\ call' = [name |-> "get_fbol"]
    /\ UNCHANGED <<a, b, result, overlap, pc>>

Getmbol ==
    /\ pc = "sed"
    /\ sed' = SED_get_mbol(called(sed))
    /\ call' = [name |-> "get_mbol"]
    /\ UNCHANGED <<a, b, result, overlap, pc>>

GetLbol ==
    /\ pc = "sed"
    /\ sed' = SED_get_Lbol(called(sed))
    /\ call' = [name |-> "get_Lbol"]
    /\ UNCHANGED <<a, b, result, overlap, pc>>

GetMbol ==
    /\ pc = "sed"
    /\ sed' = SED_get_Mbol(called(sed))
    /\ call' = [name |-> "get_Mbol"]
    /\ UNCHANGED <<a, b, result, overlap, pc>>

GetTeff ==
    /\ pc = "sed"
    /\ sed' = SED_get_Teff(called(sed))
    /\ call' = [name |-> "get_Teff"]
    /\ UNCHANGED <<a, b, result, overlap, pc>>

FundamentalParams ==
    /\ pc = "sed"
    /\ sed' = SED_fundamental_params(called(sed))
    /\ call' = [name |-> "fundamental_params"]
    /\ UNCHANGED <<a, b, result, overlap, pc>>

\* self.app_SED = ...: the composite is assigned anew, and fbol, mbol and the
\* other derived attributes stay as they are
SetAppSED ==
    /\ pc = "sed"
    /\ \E s \in ParamSEDs :
          sed' = [sed EXCEPT !.app_SED = s, !.attrs = @ \cup {"app_SED"},
                             !.raised = "", !.trace = <<>>]
    /\ call' = [name |-> "app_SED"]
    /\ UNCHANGED <<a, b, result, overlap, pc>>

NextParams ==
    \/ SetDistance
    \/ SetRadius
    \/ SetAppSED
    \/ GetFbol
    \/ Getmbol
    \/ GetLbol
    \/ GetMbol
    \/ GetTeff
    \/ FundamentalParams

SpecParams == InitParams /\ [][NextParams]_vars

(***************************************************************************)
(* What the claims about a + b speak of.  In a state with pc = "added", b  *)
(* is in a's units, so a.data and b.data are the two curves side by side.  *)
(***************************************************************************)
ISqrt(n) == CHOOSE k \in 0..n : k * k = n

\* The uncertainty of a column of an input spectrum (a whole square)
Unc(c) == <<ISqrt(c.unc_sq[1]), ISqrt(c.unc_sq[2])>>

\* The curve Val of s at wavelength x, linearly interpolated in wavelength
LinearAt(x, s, Val(_)) ==
    LET j == CHOOSE i \in 1..Len(s) :
                 s[i].wave <= x /\ (i = Len(s) \/ x < s[i + 1].wave)
    IN  IF j = Len(s) THEN Val(s[j])
        ELSE RAdd(Val(s[j]),
                  RMul(RSub(Val(s[j + 1]), Val(s[j])),
                       Rat(x - s[j].wave, s[j + 1].wave - s[j].wave)))

FluxAt(x, s) == LinearAt(x, s, LAMBDA c : c.flux)

UncAt(x, s) == LinearAt(x, s, LAMBDA c : Unc(c))

\* One wavelength range lies strictly below the other
Disjoint(s1, s2) == Last(s1).wave < s2[1].wave \/ Last(s2).wave < s1[1].wave

\* The columns of the result inside the overlap region: strictly between the
\* last wavelength of the left segment and the first of the right segment
OverlapGrid ==
    {i \in 1..Len(result.data) :
        /\ Last(left_segment(a.data, b.data)).wave < result.data[i].wave
        /\ result.data[i].wave < right_segment(a.data, b.data)[1].wave}

Ascending(s) == \A i \in 1..(Len(s) - 1) : s[i].wave < s[i + 1].wave

ColumnSet(s) == {s[i] : i \in 1..Len(s)}

ResolutionsDiffer(s1, s2) ==
    Len(s1) * (Last(s2).wave - s2[1].wave) # Len(s2) * (Last(s1).wave - s1[1].wave)

\* C1: at every grid point of the overlap region of a + b the value is the
\* mean of a's and b's values at that wavelength (each linearly interpolated
\* in wavelength) and the uncertainty is sqrt(u_a^2 + u_b^2), whichever of a
\* and b has the higher resolution.
C1_OverlapMeanQuadrature ==
    (pc = "added" /\ ~ Disjoint(a.data, b.data)) =>
        \A i \in OverlapGrid :
            LET c == result.data[i]
                ua == UncAt(c.wave, a.data)
                ub == UncAt(c.wave, b.data)
            IN  /\ c.flux = RDiv(RAdd(FluxAt(c.wave, a.data), FluxAt(c.wave, b.data)),
                                 RInt(2))
                /\ c.unc_sq = RAdd(RMul(ua, ua), RMul(ub, ub))

\* C2: when the ranges of a and b do not overlap, the wavelengths of a + b
\* are the ascending union of a's and b's, each with the value and the
\* uncertainty of the sample it came from: nothing interpolated or dropped.
C2_NoOverlapSortedUnion ==
    (pc = "added" /\ Disjoint(a.data, b.data)) =>
        /\ Ascending(result.data)
        /\ Len(result.data) = Len(a.data) + Len(b.data)
        /\ ColumnSet(result.data) = ColumnSet(a.data) \cup ColumnSet(b.data)

\* C3: __add__ classifies a and b as non-overlapping exactly when one range
\* lies strictly below the other, single-sample spectra included.
C3_OverlapClassification ==
    pc = "added" => (overlap = ~ Disjoint(a.data, b.data))

\* C4: for overlapping or touching ranges, the wavelengths of a + b run from
\* min(min a, min b) to max(max a, max b) in ascending order, none twice.
C4_OverlapSpanNoDuplicate ==
    (pc = "added" /\ ~ Disjoint(a.data, b.data)) =>
        /\ result.data # <<>>
        /\ result.data[1].wave =
               (IF a.data[1].wave < b.data[1].wave THEN a.data[1].wave
                ELSE b.data[1].wave)
        /\ Last(result.data).wave =
               (IF Last(a.data).wave > Last(b.data).wave THEN Last(a.data).wave
                ELSE Last(b.data).wave)
        /\ Ascending(result.data)

\* C5: at every grid point of the overlap region the merged uncertainty is at
\* least a's and at least b's uncertainty at that wavelength (linearly
\* interpolated in wavelength).
C5_OverlapUncAtLeastEach ==
    (pc = "added" /\ ~ Disjoint(a.data, b.data)) =>
        \A i \in OverlapGrid :
            LET c == result.data[i]
                ua == UncAt(c.wave, a.data)
                ub == UncAt(c.wave, b.data)
            IN  /\ RLe(RMul(ua, ua), c.unc_sq)
                /\ RLe(RMul(ub, ub), c.unc_sq)

\* C6: when the resolutions differ, the wavelengths of a + b inside the
\* overlap region are exactly the overlap-region wavelengths of the input of
\* higher resolution.
C6_GridIsHigherResolution ==
    (pc = "added" /\ ~ Disjoint(a.data, b.data)
                  /\ ResolutionsDiffer(a.data, b.data)) =>
        LET left == left_segment(a.data, b.data)
            right == right_segment(a.data, b.data)
            higher == IF lower_resolution(a.data, b.data) THEN b.data ELSE a.data
        IN  [i \in 1..Cardinality(OverlapGrid) |->
                 result.data[SetMin(OverlapGrid) + i - 1].wave]
              = Waves(overlap_segment(higher, left, right))

\* C7: a + None is a new spectrum with the wavelength, value and uncertainty
\* arrays of a, whatever snr_trim a was built with.
C7_AddNoneIsCopy ==
    pc = "copied" =>
        /\ result.wave_units = a.wave_units
        /\ result.flux_units = a.flux_units
        /\ result.data = a.data

\* C8: a + b leaves a and b as they were: units and stored arrays, also when
\* b's units differ from a's.
C8_AddLeavesOperands ==
    [][(pc = "start" /\ pc' = "added") => (a' = a /\ b' = b)]_vars

(***************************************************************************)
(* What the claims about SED grouping speak of.                            *)
(***************************************************************************)
\* Some sample of anchor S lies strictly between the first and the last
\* wavelength of s
StrictlyInside(S, s) ==
    \E i \in 1..Len(S.data) :
        s.data[1].wave < S.data[i].wave /\ S.data[i].wave < Last(s.data).wave

Members(g) == {g[j] : j \in 1..Len(g)}

EarlierMembers(groups, k) == UNION {Members(groups[m]) : m \in 1..(k - 1)}

\* C9: group_spectra puts a not yet grouped spectrum s into the group of
\* anchor S exactly when some wavelength sample of S lies strictly inside
\* the span of s, also when that sample is the first sample of S only.
C9_GroupIffAnchorSampleInside ==
    \A k \in 1..Len(sed.groups) :
        \A n \in (1..Len(sed.spectra)) \ (EarlierMembers(sed.groups, k) \cup {sed.groups[k][1]}) :
            (n \in Members(sed.groups[k]))
                <=> StrictlyInside(sed.spectra[sed.groups[k][1]], sed.spectra[n])

\* C10: after _calibrate_spectra ran on two or more spectra, every entry of
\* stitched_spectra is one Spectrum object, one per group, also for a group
\* of a single spectrum.
C10_StitchedEntriesAreSpectra ==
    (Len(sed.spectra) >= 2 /\ "stitched_spectra" \in sed.attrs) =>
        /\ Len(sed.stitched_spectra) = Len(sed.groups)
        /\ \A k \in 1..Len(sed.stitched_spectra) :
              sed.stitched_spectra[k].kind = "Spectrum"

\* C11: distance and parallax are both unset or both set, each the
\* conversion of the other; the one a successful setter call computed is
\* the conversion of the one it was given, and that call ran
\* _calibrate_photometry and then _calibrate_spectra.
C11_DistanceParallaxConsistent ==
    /\ (sed.distance = "None") <=> (sed.parallax = "None")
    /\ sed.distance # "None" =>
          sed.parallax = pi2pc(sed.distance) \/ sed.distance = pi2pc(sed.parallax)
    /\ (call.name = "distance" /\ sed.raised = "") =>
          /\ sed.parallax = pi2pc(sed.distance)
          /\ sed.trace = <<"_calibrate_photometry", "_calibrate_spectra">>
    /\ (call.name = "parallax" /\ sed.raised = "") =>
          /\ sed.distance = pi2pc(sed.parallax)
          /\ sed.trace = <<"_calibrate_photometry", "_calibrate_spectra">>

\* C11 happens: a distance setter call that succeeded on an SED with
\* photometry and a spectrum, and left both absolute SEDs
C11_Witness ==
    /\ call.name = "distance"
    /\ sed.raised = ""
    /\ sed.distance = <<RInt(10), RInt(1)>>
    /\ sed.parallax = <<RInt(100), RInt(10)>>
    /\ Len(sed.photometry) > 0
    /\ Len(sed.spectra) > 0
    /\ "abs_phot_SED" \in sed.attrs
    /\ "abs_spec_SED" \in sed.attrs

\* C12: with no distance set, a recalibration of a non-empty photometry
\* table or spectrum list by add_photometry, add_spectrum or a unit setter
\* raises nothing and computes no absolute SED.
C12_UncalibratedRecalibrationCompletes ==
    (/\ sed.distance = "None"
     /\ call.name \in {"add_photometry", "add_spectrum", "wave_units", "flux_units"}
     /\ Len(sed.photometry) + Len(sed.spectra) > 0)
        => /\ sed.raised = ""
           /\ "abs_phot_SED" \notin sed.attrs
           /\ "abs_spec_SED" \notin sed.attrs
           /\ Len(sed.photometry) > 0 => "app_phot_SED" \in sed.attrs
           /\ Len(sed.spectra) > 0 => "app_spec_SED" \in sed.attrs

\* C13: given a composite apparent SED, fundamental_params raises no error;
\* with no distance set it stores fbol and mbol and no Mbol, Lbol or Teff;
\* with no radius set it stores no Teff
C13_PipelineSkipsMissingInputs ==
    (call.name = "fundamental_params" /\ "app_SED" \in sed.attrs) =>
        /\ sed.raised = ""
        /\ sed.distance = "None" =>
              /\ {"fbol", "mbol"} \subseteq sed.attrs
              /\ sed.attrs \cap {"Mbol", "Lbol", "Teff"} = {}
        /\ sed.radius = "None" => "Teff" \notin sed.attrs

\* C14: with a distance set and a composite apparent SED, get_Lbol completes
\* and stores Lbol = 4 pi fbol distance^2 (here in units of 4 pi pc^2
\* erg/s/cm2) with the uncertainty Lbol * sqrt((sig_fbol/fbol)^2 +
\* (2 sig_d/d)^2), kept squared
C14_FirstLbolCompletes ==
    (call.name = "get_Lbol" /\ "app_SED" \in sed.attrs /\ sed.distance # "None") =>
        /\ sed.raised = ""
        /\ "Lbol" \in sed.attrs
        /\ sed.Lbol.val = RMul(sed.fbol.val, RSquare(sed.distance[1]))
        /\ sed.Lbol.unc_sq =
              RMul(RSquare(sed.Lbol.val),
                   RAdd(RDiv(sed.fbol.unc_sq, RSquare(sed.fbol.val)),
                        RSquare(RDiv(RMul(RInt(2), sed.distance[2]),
                                     sed.distance[1]))))

\* C15: after make_sed on an SED with photometry and stitched Spectrum
\* objects, app_SED exists, ascends in wavelength, starts at the placeholder
\* point and holds every wavelength of every stitched spectrum.
C15_AppSEDIsOrderedMerge ==
    (/\ call.name = "make_sed"
     /\ "app_phot_SED" \in sed.attrs
     /\ "stitched_spectra" \in sed.attrs
     /\ Len(sed.stitched_spectra) > 0
     /\ \A k \in 1..Len(sed.stitched_spectra) :
           sed.stitched_spectra[k].kind = "Spectrum")
        => /\ sed.raised = ""
           /\ "app_SED" \in sed.attrs
           /\ Ascending(sed.app_SED.data)
           /\ sed.app_SED.data[1].wave = sed.wein.data[1].wave
           /\ \A k \in 1..Len(sed.stitched_spectra) :
                 \A i \in 1..Len(sed.stitched_spectra[k].spec.data) :
                    \E j \in 1..Len(sed.app_SED.data) :
                       sed.app_SED.data[j].wave =
                          WaveTo(sed.stitched_spectra[k].spec.data[i].wave,
                                 sed.stitched_spectra[k].spec.wave_units,
                                 sed.wave_units)

(***************************************************************************)
(* What the claims about flux_calibrate, synthetic_flux and norm_to_mags   *)
(* speak of.  call.self is the spectrum before the call.                   *)
(***************************************************************************)
\* C16: flux_calibrate with distance (d, sigma_d) and target t returns a
\* spectrum with value f*(d/t)^2 and squared uncertainty
\* (sigma_f*(d/t)^2)^2 + (2*f*sigma_d*d/t^2)^2 at each sample.
C16_FluxCalibrateSquareLaw ==
    (pc = "flux_calibrate" /\ call.flux_units = "None") =>
        LET d == call.distance[1]
            sigma_d == call.distance[2]
            t == call.target_distance
            scale == RMul(RDiv(d, t), RDiv(d, t))
            expected(c) ==
                LET term2 == RDiv(RMul(RInt(2), RMul(c.flux, RMul(sigma_d, d))),
                                  RMul(t, t))
                IN [wave |-> c.wave,
                    flux |-> RMul(c.flux, scale),
                    unc_sq |-> RAdd(RMul(c.unc_sq, RMul(scale, scale)),
                                    RMul(term2, term2))]
        IN result.data = [i \in 1..Len(call.self.data) |-> expected(call.self.data[i])]

\* The rows norm_to_mags reads a synthetic flux from, with that flux
UsableData ==
    synthetic_rows(call.self,
                   kept_rows(call.photometry, call.exclude, call.include),
                   FALSE).data

\* The scale factor weighted by each row's own FWHM
OwnWeightNorm(data) ==
    LET var(i) == RAdd(data[i].e1_sq, data[i].e2_sq)
        w(i) == RInt(data[i].weight)
    IN RDiv(np_sum_values([i \in 1..Len(data) |->
                RDiv(RMul(w(i), RMul(data[i].f1, data[i].f2)), var(i))]),
            np_sum_values([i \in 1..Len(data) |->
                RDiv(RMul(w(i), RMul(data[i].f2, data[i].f2)), var(i))]))

\* C17: with two or more usable rows whose bandpasses differ in FWHM, the
\* scale factor of norm_to_mags is the sum of w*fobs*fsyn/(sobs^2+ssyn^2)
\* over the sum of w*fsyn^2/(sobs^2+ssyn^2), w the FWHM of the row's own
\* bandpass.
C17_NormWeightsEachRowByItsFWHM ==
    (/\ pc = "norm_to_mags"
     /\ Len(UsableData) >= 2
     /\ \E i, j \in 1..Len(UsableData) : UsableData[i].weight # UsableData[j].weight)
        => call.norm = OwnWeightNorm(UsableData)

\* C18: when no row survives the filter or none yields a synthetic flux,
\* norm_to_mags returns a spectrum with the arrays of the original.
C18_NoUsablePhotometryKeepsArrays ==
    (pc = "norm_to_mags" /\ Len(UsableData) = 0) =>
        /\ result.data = call.self.data
        /\ result.wave_units = call.self.wave_units
        /\ result.flux_units = call.self.flux_units

C20_CallsLeaveSelfUnchanged ==
    pc \in {"synthetic_flux", "norm_to_mags"} => a = call.self

(***************************************************************************)
(* Claims about the integral of a sum, the constructor, the groups and the *)
(* bookkeeping of the SED.                                                 *)
(***************************************************************************)
\* Spectrum.integral of s without its uncertainty: np.trapz(flux, x=wave)*m
TrapzOf(s) ==
    RMul(np_trapz([i \in 1..Len(s.data) |-> s.data[i].flux], Waves(s.data)),
         integral_factor(s))

\* C21: when the ranges of a and b do not overlap, the integral of a + b is
\* the integral of a plus the integral of b, a gap between the two ranges
\* included.
C21_IntegralAdditiveOverMerge ==
    (pc = "added" /\ Disjoint(a.data, b.data)) =>
        TrapzOf(result) = RAdd(TrapzOf(a), TrapzOf(b))

\* C26: the groups of group_spectra are a partition of the input list:
\* every spectrum is in exactly one group, once; no group is empty; the
\* first member of a group is its anchor, the first spectrum in input order
\* that no earlier group holds, so the groups come in the order of their
\* anchors.  Membership is decided against the anchor only.
C26_GroupsPartitionInput ==
    Len(sed.spectra) > 1 =>
        /\ \A n \in 1..Len(sed.spectra) :
              Cardinality({kj \in (1..Len(sed.groups)) \X (1..Len(sed.spectra)) :
                              /\ kj[2] <= Len(sed.groups[kj[1]])
                              /\ sed.groups[kj[1]][kj[2]] = n}) = 1
        /\ \A k \in 1..Len(sed.groups) :
              /\ Len(sed.groups[k]) > 0
              /\ sed.groups[k][1] =
                    SetMin((1..Len(sed.spectra)) \ EarlierMembers(sed.groups, k))
              /\ \A j \in 2..Len(sed.groups[k]) :
                    sed.groups[k][j] > sed.groups[k][1]

\* C26 happens: of three spectra the third joined the first, and the second,
\* whose range overlaps the third's but holds no sample of the first's
\* anchor test, is a group of its own
C26_Witness ==
    /\ sed.groups = <<(<<1, 3>>), (<<2>>)>>
    /\ sed.spectra[2].data[1].wave < Last(sed.spectra[3].data).wave
    /\ sed.spectra[3].data[1].wave < Last(sed.spectra[2].data).wave

(***************************************************************************)
(* What the claims about the constructor speak of: the arguments of the    *)
(* call as samples, and those of them with a positive value.               *)
(***************************************************************************)
SameLengths ==
    /\ Len(call.wave) = Len(call.flux)
    /\ ~ call.unc_is_None => Len(call.unc) = Len(call.flux)

InputUncSq(i) ==
    IF call.unc_is_None THEN Rat(call.flux[i][1] ^ 2, 100) ELSE call.unc[i]

InputSamples ==
    [i \in 1..Len(call.flux) |->
        [wave |-> call.wave[i], flux |-> call.flux[i], unc_sq |-> InputUncSq(i)]]

PositiveSamples == SelectSeq(InputSamples, LAMBDA c : c.flux[1] > 0)

\* The positions of PositiveSamples with value/uncertainty >= snr_trim
Qualifying ==
    {i \in 1..Len(PositiveSamples) :
        RLe(RMul(RInt(call.snr_trim ^ 2), PositiveSamples[i].unc_sq),
            RSquare(PositiveSamples[i].flux))}

\* The wavelength of c, in um, lies in one of the windows of trim
InWindow(c) ==
    \E k \in 1..Len(call.trim) :
        /\ call.trim[k][1] <= WaveTo(c.wave, call.wave_units, "um")
        /\ WaveTo(c.wave, call.wave_units, "um") <= call.trim[k][2]

\* C22: the constructor fails with the shape error whenever the arrays do
\* not all have one length, also when only unc differs from the other two.
C22_UnequalLengthsRaiseShapeError ==
    (pc = "__init__" /\ ~ SameLengths) => call.raised = "TypeError"

C24_SnrTrimKeepsQualifyingRun ==
    (/\ pc = "__init__" /\ call.raised = "" /\ SameLengths
     /\ call.snr_trim # NoSnrTrim /\ call.trim = <<>>
     /\ Qualifying # {}) =>
        result.data = SubSeq(PositiveSamples, SetMin(Qualifying),
                             CHOOSE i \in Qualifying : \A j \in Qualifying : j <= i)

\* C25: with exclusion windows, no stored sample lies inside a window and
\* every sample outside all windows is kept, also when all samples lie
\* inside a window or only the first lies outside.
C25_TrimWindowsExcluded ==
    (/\ pc = "__init__" /\ call.raised = "" /\ SameLengths
     /\ call.snr_trim = NoSnrTrim /\ call.trim # <<>>) =>
        result.data = SelectSeq(PositiveSamples, LAMBDA c : ~ InWindow(c))

\* C27: after a drop the derived products are those of the current raw data:
\* with spectra left, stitched_spectra and app_spec_SED are what
\* _calibrate_spectra computes from the current list, with rows left
\* app_phot_SED is what _calibrate_photometry computes from the current
\* table, and with none left the product is gone.
C27_ProductsFollowRawData ==
    call.name \in {"drop_spectrum", "drop_photometry"} =>
        /\ Len(sed.spectra) = 0 => "app_spec_SED" \notin sed.attrs
        /\ Len(sed.spectra) = 1 =>
              /\ sed.stitched_spectra = calibrate_spectra(sed).stitched_spectra
              /\ sed.app_spec_SED = calibrate_spectra(sed).app_spec_SED
        /\ Len(sed.photometry) = 0 => "app_phot_SED" \notin sed.attrs
        /\ Len(sed.photometry) > 0 =>
              sed.app_phot_SED = calibrate_photometry(sed).app_phot_SED

\* C28: whenever get_mbol, get_Lbol or get_Mbol completes, the stored fbol is
\* the integral of the current composite apparent SED and the stored mbol is
\* the magnitude of that integral, also after the composite was assigned anew
C28_BolometricFollowsCurrentSED ==
    (call.name \in {"get_mbol", "get_Lbol", "get_Mbol"} /\ sed.raised = "") =>
        /\ sed.fbol = Spectrum_integral(sed.app_SED)
        /\ call.name # "get_Lbol" => sed.mbol = mbol_of(Spectrum_integral(sed.app_SED))

\* C29: after an add_spectrum, add_photometry, wave_units or flux_units call
\* that completes, every spectrum of the raw list has the wavelength unit and
\* the flux unit of the SED
C29_SpectraCarrySEDUnits ==
    (call.name \in {"add_spectrum", "add_photometry", "wave_units", "flux_units"}
        /\ sed.raised = "") =>
        \A i \in 1..Len(sed.spectra) :
            /\ sed.spectra[i].wave_units = sed.wave_units
            /\ sed.spectra[i].flux_units = sed.flux_units

\* C30: a distance setter, parallax setter, add_photometry or add_spectrum
\* call that raises leaves the distance, the parallax, the photometry table
\* and the raw spectrum list as they were before the call
C30_RaisingCallChangesNothing ==
    [][(call'.name \in {"distance", "parallax", "add_photometry", "add_spectrum"}
           /\ sed'.raised # "") =>
          /\ sed'.distance = sed.distance
          /\ sed'.parallax = sed.parallax
          /\ sed'.photometry = sed.photometry
          /\ sed'.spectra = sed.spectra]_vars

====
